---- MODULE Spec2Model ----
(***************************************************************************)
(* Draft-state reconciliation and synchronisation of draft_app.py.         *)
(*                                                                         *)
(* The Streamlit script is re-executed from top to bottom on every user    *)
(* interaction and on every st.rerun().  One execution is modelled as the  *)
(* sequence of its handlers, in the order main() reaches them:             *)
(*   pc = "start"   process_url_params()                (line 339)         *)
(*   pc = "sidebar" connect / sync / auto-sync widgets  (lines 355-548)    *)
(*   pc = "tick"    the auto-sync block                 (lines 552-588)    *)
(*   pc = "body"    draft controls and clear-all        (lines 891-950)    *)
(* st.session_state is the state that survives between executions.         *)
(*                                                                         *)
(* Time: the code reads last_sync_time only as (last_sync_time == 0) and   *)
(* as (time.time() - last_sync_time >= 5.0).  The model therefore keeps    *)
(* sync_age = time.time() - last_sync_time in whole seconds, saturated at  *)
(* SYNC_INTERVAL, and TimerUnset for the initial value 0.  A change of     *)
(* last_sync_time is a change of sync_age in a step in which no time       *)
(* passes (only Tock lets time pass).                                      *)
(*                                                                         *)
(* The remote service is the environment: every lookup and every pick      *)
(* fetch may answer anything (including a failure) each time it is asked.  *)
(* st.cache_data is modelled by the set of memoized calls; a hit returns   *)
(* an earlier answer of the service, which the model does not fix.         *)
(***************************************************************************)
EXTENDS Integers, FiniteSets, Sequences, TLC

\* ---------------------------------------------------------------- bounds
NumPlayers == 2

\* ------------------------------------------------------ program constants
SYNC_INTERVAL == 5
TimerUnset == -1

\* ------------------------------------------------------------ value sets
Players == 1..NumPlayers

None == "None"
Absent == "absent"
LeagueIds == {"L1"}
DraftIds == {"D1", "D2"}

\* The mapping get_sleeper_draft_picks_by_id builds: player name -> pick.
PickMap(S) == [p \in S |-> [pick_no |-> p]]
PickMaps == {PickMap(S) : S \in SUBSET Players}
EmptyPicks == PickMap({})
keys(m) == DOMAIN m

\* Answers of GET /league/{id} and GET /draft/{id} as the wrappers return
\* them: None (not found, non-200, transport error) or the metadata.
NotFound == [found |-> FALSE, draft_id |-> None]
LeagueAnswers == {NotFound} \cup {[found |-> TRUE, draft_id |-> d] : d \in {None, "D1"}}
DraftAnswers == {NotFound, [found |-> TRUE, draft_id |-> None]}
\* Answers of GET /draft/{id}/picks (+ the player directory).
PickAnswers == {[ok |-> FALSE, picks |-> EmptyPicks]} \cup {[ok |-> TRUE, picks |-> m] : m \in PickMaps}

VARIABLES
    drafted_players,       \* st.session_state.drafted_players
    sleeper_picks,         \* st.session_state.sleeper_picks
    sleeper_league_info,   \* st.session_state.sleeper_league_info
    sleeper_draft_info,    \* st.session_state.sleeper_draft_info
    connection_type,       \* st.session_state.connection_type
    current_league_id,     \* st.session_state.current_league_id
    current_draft_id,      \* st.session_state.current_draft_id
    auto_sync_active,      \* st.session_state.auto_sync_active
    sync_age,              \* time.time() - st.session_state.last_sync_time
    sync_in_progress,      \* st.session_state.sync_in_progress
    url_params_processed,  \* st.session_state.url_params_processed
    query_params,          \* st.query_params
    cached,                \* calls memoized by st.cache_data
    pc,                    \* position of the script execution
    clicked,               \* this execution's widget event is used up
    last                   \* what the last handler did (observation only)

session == <<drafted_players, sleeper_picks, sleeper_league_info, sleeper_draft_info,
             connection_type, current_league_id, current_draft_id, auto_sync_active,
             sync_age, sync_in_progress, url_params_processed>>
vars == <<drafted_players, sleeper_picks, sleeper_league_info, sleeper_draft_info,
          connection_type, current_league_id, current_draft_id, auto_sync_active,
          sync_age, sync_in_progress, url_params_processed,
          query_params, cached, pc, clicked, last>>

\* Observation of a handler: which one ran, what it reported, whether it
\* cleared the cache, whether it called a fetch function at all, how its
\* pick fetch ended ("none", "ok", "failed") and whether one of its fetch
\* calls was answered from a memo that predates the handler.
Did(op, result, cleared, called, fetch, stale) ==
    [op |-> op, result |-> result, cleared |-> cleared, called |-> called,
     fetch |-> fetch, stale |-> stale]
Quiet(op, result) == Did(op, result, FALSE, FALSE, "none", FALSE)

\* ------------------------------------------------------- remote feed client
\* get_sleeper_draft_picks_by_id: the mapping on success, {} on any failure.
get_sleeper_draft_picks_by_id(ans) == IF ans.ok THEN ans.picks ELSE EmptyPicks

\* get_sleeper_draft_picks: league info first, then the league's draft.
get_sleeper_draft_picks(li, ans) ==
    IF ~li.found THEN EmptyPicks
    ELSE IF li.draft_id = None THEN EmptyPicks
    ELSE get_sleeper_draft_picks_by_id(ans)

\* How the pick fetch of a league ended: "failed" when the league lookup or
\* the pick request failed, "ok" otherwise (a league without a draft is ok).
LeagueFetchStatus(li, ans) ==
    IF ~li.found THEN "failed"
    ELSE IF li.draft_id = None THEN "ok"
    ELSE IF ans.ok THEN "ok" ELSE "failed"
MockFetchStatus(ans) == IF ans.ok THEN "ok" ELSE "failed"

\* @st.cache_data: one memo entry per (function, argument).
LeagueInfoKey(id) == <<"get_sleeper_league_info", id>>
DraftInfoKey(id) == <<"get_sleeper_draft_info", id>>
PicksByIdKey(id) == <<"get_sleeper_draft_picks_by_id", id>>
PicksKey(id) == <<"get_sleeper_draft_picks", id>>

\* The memo entries get_sleeper_draft_picks(id) reads or writes when the
\* cache holds c and the league lookup answers li: a hit on the outer call
\* touches nothing else.
LeaguePicksCalls(id, li, c) ==
    IF PicksKey(id) \in c THEN {PicksKey(id)}
    ELSE {PicksKey(id), LeagueInfoKey(id)} \cup
         (IF li.found /\ li.draft_id # None THEN {PicksByIdKey(li.draft_id)} ELSE {})

\* The memo entries of a league connect: the lookup, then (found) the picks.
ConnectLeagueCalls(id, li, c) ==
    {LeagueInfoKey(id)} \cup
    (IF li.found THEN LeaguePicksCalls(id, li, c \cup {LeagueInfoKey(id)}) ELSE {})
ConnectMockCalls(id, di) ==
    {DraftInfoKey(id)} \cup (IF di.found THEN {PicksByIdKey(id)} ELSE {})

\* ----------------------------------------------------- reconciliation engine
\* Connect: drafted_players.update(sleeper_picks.keys()).
ConnectMerge(drafted, new) == drafted \cup keys(new)

\* Sync: session_state.sleeper_picks is assigned the new mapping first, and
\* manual_picks is then computed against session_state.sleeper_picks.
\* Mutant: the sync keeps the remote picks only.
SyncMerge_RemoteOnly(drafted, stored, new) == keys(new)
\* Mutant: the sync combines the sets with ^ (symmetric difference), not union.
SyncMerge_SymDiff(drafted, stored, new) == (drafted \ keys(new)) \cup (keys(new) \ drafted)
SyncMerge(drafted, stored, new) ==
    LET stored_now == new
        manual_picks == {player \in drafted : player \notin keys(stored_now)}
    IN  manual_picks \cup keys(new)

\* -------------------------------------------------------- connection state
ConnectLeagueIds(id) == [league_id |-> id, draft_id |-> None]
\* Mutant: the mock connect forgets to clear the league id (line 420).
ConnectMockIds_KeepLeague(id) == [league_id |-> current_league_id, draft_id |-> id]
ConnectMockIds(id) == [league_id |-> None, draft_id |-> id]

\* set_url_params(league_id=..., draft_id=None) and the converse.
UrlForLeague(id) == [league_id |-> id, draft_id |-> Absent]
UrlForMock(id) == [league_id |-> Absent, draft_id |-> id]

\* The session-state writes of a league connect, shared by the button and
\* the deep link.
\* Mutant: the mode is assigned before the lookup, like the identifiers.
ConnectedMode_BeforeLookup(found, mode) == mode
\* connection_type after a connect: assigned inside the branch that found
\* the information, untouched otherwise.
ConnectedMode(found, mode) == IF found THEN mode ELSE connection_type

ConnectLeague(op, id, li, ans) ==
    LET ids == ConnectLeagueIds(id)
        calls == ConnectLeagueCalls(id, li, cached)
        new == get_sleeper_draft_picks(li, ans)
    IN  /\ current_league_id' = ids.league_id
        /\ current_draft_id' = ids.draft_id
        /\ cached' = cached \cup calls
        /\ connection_type' = ConnectedMode(li.found, "league")
        /\ IF li.found
           THEN /\ sleeper_league_info' = li
                /\ sleeper_draft_info' = NotFound
                /\ sleeper_picks' = new
                /\ drafted_players' = ConnectMerge(drafted_players, new)
                /\ last' = Did(op, "connected", FALSE, TRUE, LeagueFetchStatus(li, ans),
                               calls \cap cached # {})
           ELSE /\ UNCHANGED <<sleeper_league_info, sleeper_draft_info,
                               sleeper_picks, drafted_players>>
                /\ last' = Did(op, "not_found", FALSE, TRUE, "none", calls \cap cached # {})

ConnectMock(op, id, di, ans) ==
    LET ids == ConnectMockIds(id)
        calls == ConnectMockCalls(id, di)
        new == get_sleeper_draft_picks_by_id(ans)
    IN  /\ current_league_id' = ids.league_id
        /\ current_draft_id' = ids.draft_id
        /\ cached' = cached \cup calls
        /\ connection_type' = ConnectedMode(di.found, "mock")
        /\ IF di.found
           THEN /\ sleeper_draft_info' = di
                /\ sleeper_league_info' = NotFound
                /\ sleeper_picks' = new
                /\ drafted_players' = ConnectMerge(drafted_players, new)
                /\ last' = Did(op, "connected", FALSE, TRUE, MockFetchStatus(ans),
                               calls \cap cached # {})
           ELSE /\ UNCHANGED <<sleeper_league_info, sleeper_draft_info,
                               sleeper_picks, drafted_players>>
                /\ last' = Did(op, "not_found", FALSE, TRUE, "none", calls \cap cached # {})

\* ------------------------------------------------------ deep-link initializer
\* The guard of process_url_params (lines 63-64).
UrlParamsDone == url_params_processed
\* The value line 119 stores in url_params_processed.
\* Mutant: the initializer leaves the flag as it found it.
MarkProcessed_Skip == url_params_processed
MarkProcessed == TRUE
\* The test that selects the league branch of the if/elif on the parameters.
\* Mutant: an empty league_id parameter falls through to the draft branch.
LeagueParamPresent_NonEmpty(params) == params.league_id \notin {Absent, ""}
LeagueParamPresent(params) == params.league_id # Absent

ProcessUrlParams ==
    /\ pc = "start"
    /\ pc' = "sidebar"
    /\ UNCHANGED <<clicked, query_params, auto_sync_active, sync_age, sync_in_progress>>
    /\ IF UrlParamsDone
       THEN /\ UNCHANGED <<drafted_players, sleeper_picks, sleeper_league_info,
                           sleeper_draft_info, connection_type, current_league_id,
                           current_draft_id, url_params_processed, cached>>
            /\ last' = Quiet("process_url_params", "already_processed")
       ELSE /\ url_params_processed' = MarkProcessed
            /\ IF LeagueParamPresent(query_params)
               THEN IF query_params.league_id # "" /\ query_params.league_id # current_league_id
                    THEN \E li \in LeagueAnswers, ans \in PickAnswers :
                            ConnectLeague("deep_link_league", query_params.league_id, li, ans)
                    ELSE /\ UNCHANGED <<drafted_players, sleeper_picks, sleeper_league_info,
                                        sleeper_draft_info, connection_type, current_league_id,
                                        current_draft_id, cached>>
                         /\ last' = Quiet("process_url_params", "no_connect")
               ELSE IF query_params.draft_id # Absent /\ query_params.draft_id # ""
                       /\ query_params.draft_id # current_draft_id
                    THEN \E di \in DraftAnswers, ans \in PickAnswers :
                            ConnectMock("deep_link_mock", query_params.draft_id, di, ans)
                    ELSE /\ UNCHANGED <<drafted_players, sleeper_picks, sleeper_league_info,
                                        sleeper_draft_info, connection_type, current_league_id,
                                        current_draft_id, cached>>
                         /\ last' = Quiet("process_url_params", "no_connect")

\* --------------------------------------------------------------- perform_sync
\* st.cache_data.clear() empties the memo of every cached wrapper.
\* Mutant: the sync fetches without clearing the cache.
ClearCache_Skip(c) == c
ClearCache(c) == {}

\* The re-entrancy guard of perform_sync (lines 299-300).
\* Mutant: perform_sync without its guard.
SyncRejected_Never(in_progress) == FALSE
SyncRejected(in_progress) == in_progress

\* sync_in_progress when perform_sync returns with the given message from
\* inside its try block: the finally clause resets it on every such path.
\* Mutant: the early return of the else branch leaves without the reset.
SyncFlagAtReturn_EarlyReturn(result) == result = "Invalid sync parameters"
SyncFlagAtReturn(result) == FALSE

\* perform_sync(connection_type, league_id, draft_id).  The flag is set at
\* the top of the try block and reset by its finally clause, so every path
\* past the guard leaves it False; the guard itself returns before the try.
\* The fetch wrappers catch every exception, so "Sync error" is not produced.
perform_sync(op, ctype, league_id, draft_id) ==
    IF SyncRejected(sync_in_progress)
    THEN /\ UNCHANGED <<sleeper_picks, drafted_players, sync_age, sync_in_progress, cached>>
         /\ last' = Quiet(op, "Sync already in progress")
    ELSE IF ctype = "league" /\ league_id # None
    THEN \E li \in LeagueAnswers, ans \in PickAnswers :
            LET new == get_sleeper_draft_picks(li, ans)
                kept == ClearCache(cached)
                calls == LeaguePicksCalls(league_id, li, kept)
            IN  /\ cached' = kept \cup calls
                /\ sleeper_picks' = new
                /\ drafted_players' = SyncMerge(drafted_players, sleeper_picks, new)
                /\ sync_age' = 0
                /\ sync_in_progress' = SyncFlagAtReturn("Synced")
                /\ last' = Did(op, "Synced", kept = {}, TRUE, LeagueFetchStatus(li, ans),
                               calls \cap kept # {})
    ELSE IF ctype = "mock" /\ draft_id # None
    THEN \E ans \in PickAnswers :
            LET new == get_sleeper_draft_picks_by_id(ans)
                kept == ClearCache(cached)
                calls == {PicksByIdKey(draft_id)}
            IN  /\ cached' = kept \cup calls
                /\ sleeper_picks' = new
                /\ drafted_players' = SyncMerge(drafted_players, sleeper_picks, new)
                /\ sync_age' = 0
                /\ sync_in_progress' = SyncFlagAtReturn("Synced")
                /\ last' = Did(op, "Synced", kept = {}, TRUE, MockFetchStatus(ans),
                               calls \cap kept # {})
    ELSE /\ sync_in_progress' = SyncFlagAtReturn("Invalid sync parameters")
         /\ UNCHANGED <<sleeper_picks, drafted_players, sync_age, cached>>
         /\ last' = Quiet(op, "Invalid sync parameters")

\* ------------------------------------------------------------ sidebar widgets
\* "Connect to League Draft": the text input holds any league id or nothing.
ConnectLeagueButton ==
    /\ pc = "sidebar" /\ ~clicked
    /\ pc' = "tick" /\ clicked' = TRUE
    /\ UNCHANGED <<auto_sync_active, sync_age, sync_in_progress, url_params_processed>>
    /\ \E sleeper_league_id \in LeagueIds \cup {""} :
          IF sleeper_league_id # ""
          THEN /\ query_params' = UrlForLeague(sleeper_league_id)
               /\ \E li \in LeagueAnswers, ans \in PickAnswers :
                     ConnectLeague("connect_league", sleeper_league_id, li, ans)
          ELSE /\ UNCHANGED <<drafted_players, sleeper_picks, sleeper_league_info,
                              sleeper_draft_info, connection_type, current_league_id,
                              current_draft_id, query_params, cached>>
               /\ last' = Quiet("connect_league", "Please enter a league ID")

\* "Connect to Mock Draft".
ConnectMockButton ==
    /\ pc = "sidebar" /\ ~clicked
    /\ pc' = "tick" /\ clicked' = TRUE
    /\ UNCHANGED <<auto_sync_active, sync_age, sync_in_progress, url_params_processed>>
    /\ \E sleeper_draft_id \in DraftIds \cup {""} :
          IF sleeper_draft_id # ""
          THEN /\ query_params' = UrlForMock(sleeper_draft_id)
               /\ \E di \in DraftAnswers, ans \in PickAnswers :
                     ConnectMock("connect_mock", sleeper_draft_id, di, ans)
          ELSE /\ UNCHANGED <<drafted_players, sleeper_picks, sleeper_league_info,
                              sleeper_draft_info, connection_type, current_league_id,
                              current_draft_id, query_params, cached>>
               /\ last' = Quiet("connect_mock", "Please enter a draft ID")

\* The connection-status block is rendered when either info is set; the
\* league widgets need connection_type "league" and the league info, the
\* mock widgets (elif) connection_type "mock" and the draft info.
LeagueWidgets == connection_type = "league" /\ sleeper_league_info.found
MockWidgets == ~LeagueWidgets /\ connection_type = "mock" /\ sleeper_draft_info.found

\* "Sync League Draft": its own copy of the sync, without perform_sync.
SyncLeagueButton ==
    /\ pc = "sidebar" /\ ~clicked /\ LeagueWidgets
    /\ pc' = "tick" /\ clicked' = TRUE
    /\ UNCHANGED <<sleeper_league_info, sleeper_draft_info, connection_type, current_league_id,
                   current_draft_id, auto_sync_active, sync_age, sync_in_progress,
                   url_params_processed, query_params>>
    /\ IF current_league_id # None
       THEN \E li \in LeagueAnswers, ans \in PickAnswers :
               LET new == get_sleeper_draft_picks(li, ans)
                   kept == ClearCache(cached)
                   calls == LeaguePicksCalls(current_league_id, li, kept)
               IN  /\ cached' = kept \cup calls
                   /\ sleeper_picks' = new
                   /\ drafted_players' = SyncMerge(drafted_players, sleeper_picks, new)
                   /\ last' = Did("sync_league", "League draft data synced!", kept = {}, TRUE,
                                  LeagueFetchStatus(li, ans), calls \cap kept # {})
       ELSE /\ UNCHANGED <<sleeper_picks, drafted_players, cached>>
            /\ last' = Quiet("sync_league", "No league ID stored")

\* "Sync Mock Draft".
SyncMockButton ==
    /\ pc = "sidebar" /\ ~clicked /\ MockWidgets
    /\ pc' = "tick" /\ clicked' = TRUE
    /\ UNCHANGED <<sleeper_league_info, sleeper_draft_info, connection_type, current_league_id,
                   current_draft_id, auto_sync_active, sync_age, sync_in_progress,
                   url_params_processed, query_params>>
    /\ IF current_draft_id # None
       THEN \E ans \in PickAnswers :
               LET new == get_sleeper_draft_picks_by_id(ans)
                   kept == ClearCache(cached)
                   calls == {PicksByIdKey(current_draft_id)}
               IN  /\ cached' = kept \cup calls
                   /\ sleeper_picks' = new
                   /\ drafted_players' = SyncMerge(drafted_players, sleeper_picks, new)
                   /\ last' = Did("sync_mock", "Mock draft data synced!", kept = {}, TRUE,
                                  MockFetchStatus(ans), calls \cap kept # {})
       ELSE /\ UNCHANGED <<sleeper_picks, drafted_players, cached>>
            /\ last' = Quiet("sync_mock", "No draft ID stored")

\* The Auto-Sync ON / OFF button of either mode.
ToggleAutoSync ==
    /\ pc = "sidebar" /\ ~clicked /\ (LeagueWidgets \/ MockWidgets)
    /\ pc' = "tick" /\ clicked' = TRUE
    /\ auto_sync_active' = ~auto_sync_active
    /\ UNCHANGED <<drafted_players, sleeper_picks, sleeper_league_info, sleeper_draft_info,
                   connection_type, current_league_id, current_draft_id, sync_age,
                   sync_in_progress, url_params_processed, query_params, cached>>
    /\ last' = Quiet("toggle_auto_sync", IF auto_sync_active THEN "Auto-sync stopped"
                                                          ELSE "Auto-sync started!")

\* No sidebar button was clicked in this execution.
SidebarIdle ==
    /\ pc = "sidebar"
    /\ pc' = "tick"
    /\ UNCHANGED <<session, query_params, cached, clicked>>
    /\ last' = Quiet("sidebar", "")

\* -------------------------------------------------------------- sync scheduler
\* The condition of line 553.
\* Mutant: the tick does not look at the auto-sync toggle.
TickActive_IgnoreToggle == current_league_id # None \/ current_draft_id # None
TickActive == auto_sync_active /\ (current_league_id # None \/ current_draft_id # None)

\* The condition of line 563, on the age the timer has after lines 557-558.
\* Mutant: the tick ignores the interval.
SyncDue_NoInterval(age, in_progress) == ~in_progress
SyncDue(age, in_progress) == age >= SYNC_INTERVAL /\ ~in_progress

\* Where the script goes after the auto-sync block: st.rerun() starts the
\* next execution, whether or not the block synced.
\* Mutant: the block has no rerun and the script goes on to the page body.
AfterTick_Continue == "body"
AfterTick == "start"

\* The auto-sync block when its condition holds; it always ends in st.rerun().
AutoSyncTick ==
    /\ pc = "tick" /\ TickActive
    /\ pc' = AfterTick /\ clicked' = FALSE
    /\ UNCHANGED <<sleeper_league_info, sleeper_draft_info, connection_type, current_league_id,
                   current_draft_id, auto_sync_active, url_params_processed, query_params>>
    /\ LET age == IF sync_age = TimerUnset THEN 0 ELSE sync_age
       IN  IF SyncDue(age, sync_in_progress)
           THEN perform_sync("auto_sync", connection_type, current_league_id, current_draft_id)
           ELSE /\ sync_age' = age
                /\ UNCHANGED <<sleeper_picks, drafted_players, sync_in_progress, cached>>
                /\ last' = Quiet("auto_sync", "not due")

\* The auto-sync block is skipped; the script goes on to the page body.
NoTick ==
    /\ pc = "tick" /\ ~TickActive
    /\ pc' = "body"
    /\ UNCHANGED <<session, query_params, cached, clicked>>
    /\ last' = Quiet("tick", "")

\* ------------------------------------------------------------------ page body
\* "Draft Player": rendered for a player in neither mapping nor set.
DraftPlayer ==
    /\ pc = "body" /\ ~clicked
    /\ \E player_name \in Players :
          /\ player_name \notin keys(sleeper_picks)
          /\ player_name \notin drafted_players
          /\ drafted_players' = drafted_players \cup {player_name}
    /\ pc' = "start" /\ clicked' = FALSE
    /\ UNCHANGED <<sleeper_picks, sleeper_league_info, sleeper_draft_info, connection_type,
                   current_league_id, current_draft_id, auto_sync_active, sync_age,
                   sync_in_progress, url_params_processed, query_params, cached>>
    /\ last' = Quiet("draft", "")

\* "Manually Drafted": rendered for a drafted player that is no Sleeper pick.
UndraftPlayer ==
    /\ pc = "body" /\ ~clicked
    /\ \E player_name \in Players :
          /\ player_name \notin keys(sleeper_picks)
          /\ player_name \in drafted_players
          /\ drafted_players' = drafted_players \ {player_name}
    /\ pc' = "start" /\ clicked' = FALSE
    /\ UNCHANGED <<sleeper_picks, sleeper_league_info, sleeper_draft_info, connection_type,
                   current_league_id, current_draft_id, auto_sync_active, sync_age,
                   sync_in_progress, url_params_processed, query_params, cached>>
    /\ last' = Quiet("undraft", "")

\* "Clear All Drafted Players": rendered when the set is not empty.
ClearAll ==
    /\ pc = "body" /\ ~clicked
    /\ drafted_players # {}
    /\ drafted_players' = {}
    /\ pc' = "start" /\ clicked' = FALSE
    /\ UNCHANGED <<sleeper_picks, sleeper_league_info, sleeper_draft_info, connection_type,
                   current_league_id, current_draft_id, auto_sync_active, sync_age,
                   sync_in_progress, url_params_processed, query_params, cached>>
    /\ last' = Quiet("clear_all", "")

\* The script reaches its end (or an early return of the body); the next
\* execution starts on the next widget event.
EndRun ==
    /\ pc = "body"
    /\ pc' = "start" /\ clicked' = FALSE
    /\ UNCHANGED <<session, query_params, cached>>
    /\ last' = Quiet("end", "")

\* One second passes between two executions.
Tock ==
    /\ pc = "start"
    /\ sync_age \in 0..(SYNC_INTERVAL - 1)
    /\ sync_age' = sync_age + 1
    /\ UNCHANGED <<drafted_players, sleeper_picks, sleeper_league_info, sleeper_draft_info,
                   connection_type, current_league_id, current_draft_id, auto_sync_active,
                   sync_in_progress, url_params_processed, query_params, cached, pc,
                   clicked, last>>

\* ---------------------------------------------------------------- the session
\* The address the session is opened with.
InitialParams ==
    {[league_id |-> l, draft_id |-> d] : l \in {Absent, ""} \cup LeagueIds,
                                         d \in {Absent} \cup DraftIds}

\* Lines 16-37; the first execution is not started by a widget.
Init ==
    /\ drafted_players = {}
    /\ sleeper_picks = EmptyPicks
    /\ sleeper_league_info = NotFound
    /\ sleeper_draft_info = NotFound
    /\ connection_type = None
    /\ current_league_id = None
    /\ current_draft_id = None
    /\ auto_sync_active = FALSE
    /\ sync_age = TimerUnset
    /\ sync_in_progress = FALSE
    /\ url_params_processed = FALSE
    /\ query_params \in InitialParams
    /\ cached = {}
    /\ pc = "start"
    /\ clicked = TRUE
    /\ last = Quiet("init", "")

Next ==
    \/ ProcessUrlParams
    \/ ConnectLeagueButton
    \/ ConnectMockButton
    \/ SyncLeagueButton
    \/ SyncMockButton
    \/ ToggleAutoSync
    \/ SidebarIdle
    \/ AutoSyncTick
    \/ NoTick
    \/ DraftPlayer
    \/ UndraftPlayer
    \/ ClearAll
    \/ EndRun
    \/ Tock

Spec == Init /\ [][Next]_vars

\* Any step of a script execution (every action but the passing of time).
ScriptStep ==
    \/ ProcessUrlParams
    \/ ConnectLeagueButton
    \/ ConnectMockButton
    \/ SyncLeagueButton
    \/ SyncMockButton
    \/ ToggleAutoSync
    \/ SidebarIdle
    \/ AutoSyncTick
    \/ NoTick
    \/ DraftPlayer
    \/ UndraftPlayer
    \/ ClearAll
    \/ EndRun

\* The session under a host that keeps executing the script (the tick ends
\* every execution in st.rerun() while auto-sync is on) and a clock that
\* keeps advancing (the tick sleeps before each rerun).
FairSpec == Spec /\ WF_vars(ScriptStep) /\ SF_vars(Tock)

\* ------------------------------------------------- perform_sync on its own
\* perform_sync as a function of the session state it is called in: the
\* session state, the flag included, is drawn from all values of its type.
InitPerformSync ==
    /\ drafted_players \in SUBSET Players
    /\ sleeper_picks \in PickMaps
    /\ sleeper_league_info = NotFound
    /\ sleeper_draft_info = NotFound
    /\ connection_type \in {None, "league", "mock"}
    /\ current_league_id \in {None} \cup LeagueIds
    /\ current_draft_id \in {None} \cup DraftIds
    /\ auto_sync_active = FALSE
    /\ sync_age \in {TimerUnset, 0, SYNC_INTERVAL}
    /\ sync_in_progress \in BOOLEAN
    /\ url_params_processed = TRUE
    /\ query_params = [league_id |-> Absent, draft_id |-> Absent]
    /\ cached \in {{}, {PicksByIdKey("D1")}}
    /\ pc = "call"
    /\ clicked = TRUE
    /\ last = Quiet("init", "")

CallPerformSync ==
    /\ pc = "call"
    /\ pc' = "returned"
    /\ perform_sync("perform_sync", connection_type, current_league_id, current_draft_id)
    /\ UNCHANGED <<sleeper_league_info, sleeper_draft_info, connection_type, current_league_id,
                   current_draft_id, auto_sync_active, url_params_processed, query_params,
                   clicked>>

SpecPerformSync == InitPerformSync /\ [][CallPerformSync]_vars

\* perform_sync called a second time, right after the first call returned.
CallPerformSyncAgain ==
    /\ pc = "returned"
    /\ pc' = "returned_twice"
    /\ perform_sync("perform_sync", connection_type, current_league_id, current_draft_id)
    /\ UNCHANGED <<sleeper_league_info, sleeper_draft_info, connection_type, current_league_id,
                   current_draft_id, auto_sync_active, url_params_processed, query_params,
                   clicked>>

SpecSyncTwice == InitPerformSync /\ [][CallPerformSync \/ CallPerformSyncAgain]_vars

\* --------------------------------------------- the sync buttons on their own
\* A sync button pressed in a connected session whose state, the
\* sync_in_progress flag included, is drawn from all values of its type.
InitSyncButton ==
    /\ drafted_players \in SUBSET Players
    /\ sleeper_picks \in PickMaps
    /\ sleeper_league_info \in LeagueAnswers
    /\ sleeper_draft_info \in DraftAnswers
    /\ connection_type \in {"league", "mock"}
    /\ LeagueWidgets \/ MockWidgets
    /\ current_league_id \in {None} \cup LeagueIds
    /\ current_draft_id \in {None} \cup DraftIds
    /\ auto_sync_active \in BOOLEAN
    /\ sync_age \in {TimerUnset, 0, SYNC_INTERVAL}
    /\ sync_in_progress \in BOOLEAN
    /\ url_params_processed = TRUE
    /\ query_params = [league_id |-> Absent, draft_id |-> Absent]
    /\ cached \in {{}, {PicksByIdKey("D1")}}
    /\ pc = "sidebar"
    /\ clicked = FALSE
    /\ last = Quiet("process_url_params", "already_processed")

SpecSyncButton == InitSyncButton /\ [][SyncLeagueButton \/ SyncMockButton]_vars

\* ======================================================================
\* Properties
\* ======================================================================
\* A step in which a handler ran (Tock is the only step that keeps pc).
Handled == pc' # pc
\* A sync cycle that fetched: perform_sync past its guard, or a sync button.
SyncRan == Handled /\ last'.op \in {"auto_sync", "sync_league", "sync_mock"} /\ last'.cleared
\* A connect attempt, by a button or by the deep link.
ConnectOps == {"connect_league", "connect_mock", "deep_link_league", "deep_link_mock"}
ConnectRan == Handled /\ last'.op \in ConnectOps /\ last'.called

\* C1 (remote removal): a player who is a key of the stored remote picks
\* before a sync cycle and no key of the picks that cycle fetched is absent
\* from drafted_players when the cycle completes.  (A key of sleeper_picks
\* cannot be marked manually: its draft button is disabled.)
C1_RemoteRemoval ==
    [][SyncRan =>
        \A p \in Players :
            (p \in keys(sleeper_picks) /\ p \notin keys(sleeper_picks'))
                => p \notin drafted_players']_vars

\* C2 (drafted view): in every reachable state every key of sleeper_picks
\* is a member of drafted_players (the view is manual picks plus remote keys).
C2_RemoteKeysDrafted == keys(sleeper_picks) \subseteq drafted_players

\* C3 (transient fetch failure): a sync cycle whose pick fetch fails leaves
\* sleeper_picks as it was before the cycle.
C3_FailedFetchRetainsPicks ==
    [][(SyncRan /\ last'.fetch = "failed") => sleeper_picks' = sleeper_picks]_vars

\* C4 (not found): a connect whose info lookup finds nothing leaves mode,
\* league_id, draft_id, remote picks and drafted view unchanged.
C4_NotFoundLeavesState ==
    [][(ConnectRan /\ last'.result = "not_found") =>
        UNCHANGED <<connection_type, current_league_id, current_draft_id,
                    sleeper_picks, drafted_players>>]_vars

\* C5 (mutual exclusion): league_id and draft_id are never both set, exactly
\* one is set whenever the mode is not None, and after every connect attempt,
\* successful or not, the other mode's identifier is unset.
C5_MutualExclusion ==
    /\ ~(current_league_id # None /\ current_draft_id # None)
    /\ connection_type # None => (current_league_id # None \/ current_draft_id # None)
    /\ (last.op \in {"connect_league", "deep_link_league"} /\ last.called)
            => current_draft_id = None
    /\ (last.op \in {"connect_mock", "deep_link_mock"} /\ last.called)
            => current_league_id = None

\* C5 witness: a failed mock connect made while a league was bound.
C5_Witness ==
    /\ last.op = "connect_mock" /\ last.result = "not_found"
    /\ connection_type = "league"
    /\ current_league_id = None /\ current_draft_id # None

\* C6 (single flight): perform_sync called while sync_in_progress is true
\* reports "Sync already in progress", alters neither last_sync_time nor the
\* remote picks, the drafted view or the flag, and neither clears the cache
\* nor fetches.
C6_SingleFlight ==
    [][(pc = "call" /\ pc' = "returned" /\ sync_in_progress) =>
        /\ last'.result = "Sync already in progress"
        /\ UNCHANGED <<sync_age, sleeper_picks, drafted_players, sync_in_progress, cached>>
        /\ ~last'.cleared /\ ~last'.called]_vars

\* C6 witness: a call in a connected session, made with the flag set, returned.
C6_Witness ==
    /\ pc = "returned" /\ sync_in_progress
    /\ connection_type = "mock" /\ current_draft_id # None
    /\ last.result = "Sync already in progress"

\* C7 (deep link once): the initializer fetches only in an invocation that
\* finds url_params_processed false, every invocation sets it, it is never
\* reset, and an invocation that finds it true fetches nothing and changes
\* no state.
C7_DeepLinkOnce ==
    [][/\ url_params_processed => url_params_processed'
       /\ (pc = "start" /\ pc' = "sidebar") =>
            /\ url_params_processed'
            /\ last'.called => ~url_params_processed
            /\ url_params_processed =>
                  /\ UNCHANGED <<session, query_params, cached>>
                  /\ ~last'.called /\ ~last'.cleared]_vars

\* C7 witness: a later invocation, the deep-link parameter of the first
\* one still in the address, after the first one's connect had failed.
C7_Witness ==
    /\ last.op = "process_url_params" /\ last.result = "already_processed"
    /\ url_params_processed
    /\ query_params.draft_id \in DraftIds
    /\ current_draft_id = query_params.draft_id
    /\ connection_type = None

\* The seconds since last_sync_time as the tick sees them (the initial
\* last_sync_time of 0 lies arbitrarily far in the past).
Elapsed == IF sync_age = TimerUnset THEN SYNC_INTERVAL ELSE sync_age

C9_ManualPreserved ==
    [][(Handled /\ last'.op \notin {"undraft", "clear_all"}) =>
        \A p \in Players :
            (p \in drafted_players /\ p \notin keys(sleeper_picks)
                                   /\ p \notin keys(sleeper_picks'))
                => p \in drafted_players']_vars

\* C9 witness: after a sync cycle that fetched picks, a player who is no
\* remote pick is still drafted.
C9_Witness ==
    /\ last.op \in {"auto_sync", "sync_league", "sync_mock"} /\ last.cleared
    /\ keys(sleeper_picks) # {}
    /\ \E p \in Players : p \in drafted_players /\ p \notin keys(sleeper_picks)

\* C10 (reconnect is a fresh connect): after a successful connect to an
\* identifier other than the bound one, drafted_players is what a connect
\* from the same manual picks and no previous remote picks gives: the
\* players drafted before that were no remote picks, plus the new keys.
C10_ReconnectIsFresh ==
    [][(/\ ConnectRan /\ last'.result = "connected"
        /\ connection_type # None
        /\ <<current_league_id', current_draft_id'>> # <<current_league_id, current_draft_id>>) =>
        drafted_players' = (drafted_players \ keys(sleeper_picks)) \cup keys(sleeper_picks')]_vars

\* C11 (idempotence): when perform_sync runs twice in sequence and the
\* second run fetches the snapshot the first one stored, the drafted view
\* (and the remote picks) after the second run are those after the first.
C11_SyncIdempotent ==
    [][(/\ pc = "returned" /\ pc' = "returned_twice"
        /\ last.result = "Synced" /\ last'.result = "Synced"
        /\ sleeper_picks' = sleeper_picks) =>
        drafted_players' = drafted_players]_vars

\* C11 witness: two sync cycles have completed; there are remote picks and
\* a drafted player who is none of them.
C11_Witness ==
    /\ pc = "returned_twice" /\ last.result = "Synced"
    /\ ~sync_in_progress /\ sync_age = 0
    /\ keys(sleeper_picks) # {}
    /\ drafted_players \ keys(sleeper_picks) # {}

\* C12 (remote-owned picks are not user-removable): no user command removes
\* from the drafted view a player who is a key of the remote picks before
\* and after the command.
C12_RemoteOwnedKept ==
    [][Handled =>
        \A p \in keys(sleeper_picks) \cap keys(sleeper_picks') :
            p \in drafted_players => p \in drafted_players']_vars

\* C13: when the information lookup of a connect (button or deep link)
\* returns NotFound, the operation reports the failure and connection_type
\* has the same value after the operation as before it; success is reported
\* only with the information found and stored.
C13_NotFoundKeepsMode ==
    [][ConnectRan =>
        /\ last'.result \in {"connected", "not_found"}
        /\ (last'.result = "not_found" => connection_type' = connection_type)
        /\ (last'.result = "connected" =>
                sleeper_league_info'.found \/ sleeper_draft_info'.found)]_vars

\* C13 witness: a mock connect has just failed in a session connected to a
\* league, and the mode is still "league".
C13_Witness ==
    /\ last.op \in {"connect_mock", "deep_link_mock"} /\ last.result = "not_found"
    /\ connection_type = "league" /\ sleeper_league_info.found
    /\ current_league_id = None

\* C14: while auto-sync is switched off no automatic sync starts: the tick
\* of a script run performs no fetch and leaves last_sync_time, the remote
\* picks and the drafted view unchanged, however long ago the last sync was.
C14_NoSyncWhenOff ==
    [][(pc = "tick" /\ Handled /\ ~auto_sync_active) =>
        /\ ~last'.called /\ ~last'.cleared
        /\ last'.op # "auto_sync"
        /\ UNCHANGED <<sync_age, sleeper_picks, drafted_players>>]_vars

\* C14 witness: the tick has been passed with auto-sync off in a connected
\* session whose last sync is a full interval or more old.
C14_Witness ==
    /\ last.op = "tick" /\ pc = "body"
    /\ ~auto_sync_active /\ sync_age = SYNC_INTERVAL
    /\ connection_type # None
    /\ (current_league_id # None \/ current_draft_id # None)

\* C15: every automatic sync cycle the scheduler starts (the tick found the
\* sync due and called perform_sync) sets last_sync_time to the current
\* time before the run ends, whether or not the cycle obtained data, so the
\* next automatic attempt is a full interval away.
C15_CycleStampsTime ==
    [][(pc = "tick" /\ Handled /\ last'.op = "auto_sync" /\ last'.result # "not due") =>
        sync_age' = 0]_vars

C17_FetchAfterClear ==
    [][(Handled /\ last'.op \in {"auto_sync", "sync_league", "sync_mock"} /\ last'.called) =>
        last'.cleared /\ ~last'.stale]_vars

\* C17 witness: a sync cycle has fetched with nothing stale, in a session
\* whose connect had memoized the same pick call.
C17_Witness ==
    /\ last.op \in {"auto_sync", "sync_league", "sync_mock"}
    /\ last.called /\ last.cleared /\ ~last.stale
    /\ connection_type = "mock" /\ current_draft_id # None
    /\ cached = {PicksByIdKey(current_draft_id)}

\* C18: the first invocation of the deep-link initializer sets
\* url_params_processed in every case (no parameter, empty parameter,
\* connect succeeded, connect failed); the flag is true in every state
\* after that invocation, and the initializer attempts a connect in no
\* later invocation, a failed first attempt included.
C18_ProcessedForGood ==
    /\ [](last.op # "init" => url_params_processed)
    /\ [][(Handled /\ last'.op \in {"deep_link_league", "deep_link_mock"}) =>
            last.op = "init"]_vars

\* C18 witness: the initializer's connect has failed and the flag is set.
C18_Witness ==
    /\ last.op \in {"deep_link_league", "deep_link_mock"}
    /\ last.result = "not_found"
    /\ url_params_processed
    /\ connection_type = None

\* C19: with both league_id and draft_id in the address, the initializer
\* acts on league_id only: it attempts a league connect exactly when it has
\* not run before and the league id is non-empty and differs from the bound
\* one, and it attempts no mock connect and no other fetch.
C19_LeagueParamFirst ==
    [][(pc = "start" /\ Handled
        /\ query_params.league_id # Absent /\ query_params.draft_id # Absent) =>
        /\ last'.op # "deep_link_mock"
        /\ (last'.op = "deep_link_league") =
              (/\ ~url_params_processed
               /\ query_params.league_id # ""
               /\ query_params.league_id # current_league_id)
        /\ (last'.called => last'.op = "deep_link_league")
        /\ current_draft_id' \in {None, current_draft_id}]_vars

\* C19 witness: the initializer has connected to the league of an address
\* that also names a draft; no draft is bound.
C19_Witness ==
    /\ last.op = "deep_link_league" /\ last.result = "connected"
    /\ query_params.league_id \in LeagueIds
    /\ query_params.draft_id \in DraftIds
    /\ connection_type = "league" /\ current_draft_id = None

\* C20: in every reachable state the mode agrees with the bound identifier
\* (mode "league" has current_league_id set, mode "mock" has
\* current_draft_id set), so no perform_sync the scheduler started has
\* returned "Invalid sync parameters".
C20_ModeMatchesBinding ==
    /\ connection_type = "league" => current_league_id # None
    /\ connection_type = "mock" => current_draft_id # None
    /\ ~(last.op = "auto_sync" /\ last.result = "Invalid sync parameters")

\* C21: sync_in_progress is false whenever perform_sync is not executing:
\* every path of perform_sync past its guard resets the flag before
\* returning, so no tick and no command finds it true and the message
\* "Sync already in progress" is never produced.
C21_FlagFalseAtRest ==
    /\ ~sync_in_progress
    /\ last.result # "Sync already in progress"

\* C21 witness: perform_sync has returned "Invalid sync parameters" to the
\* scheduler, and the flag is false.
C21_Witness ==
    /\ last.op = "auto_sync" /\ last.result = "Invalid sync parameters"
    /\ ~sync_in_progress
    /\ auto_sync_active

\* C22 (liveness of polling): if from some point on auto-sync stays on and
\* an identifier stays bound, sync cycles that fetch and reconcile (and
\* stamp last_sync_time) occur again and again.
C22_PollingLive ==
    <>[]TickActive => []<>(last.op = "auto_sync" /\ last.result = "Synced")

\* C23: while auto-sync is on and a league or draft identifier is bound,
\* every script run ends at the tick's rerun before the page body: the body
\* is never reached, no draft, undraft or clear-all command takes effect,
\* and drafted_players changes only through a sync or a connect.
C23_NoManualWhilePolling ==
    [][(TickActive /\ Handled) =>
        /\ pc # "body" /\ (TickActive' => pc' # "body")
        /\ last'.op \notin {"draft", "undraft", "clear_all", "end"}
        /\ (drafted_players' # drafted_players =>
               last'.op \in ConnectOps \cup {"auto_sync", "sync_league", "sync_mock"})]_vars

\* C23 witness: a run has ended at the tick, no sync being due, in a session
\* that holds a manually drafted player and an undrafted one.
C23_Witness ==
    /\ TickActive /\ pc = "start"
    /\ last.op = "auto_sync" /\ last.result = "not due"
    /\ drafted_players \ keys(sleeper_picks) # {}
    /\ Players \ drafted_players # {}

====
